---- MODULE Spec2Model ----
(***************************************************************************)
(* AutoRegister (src/04_AutoRegister/auto_register.h): a process-wide      *)
(* registry of creators keyed by class name (or class#instance), cached    *)
(* instances, and per-priority init queues, guarded by one std::mutex.     *)
(*                                                                         *)
(* Threads make public calls. Every critical section of the code is one    *)
(* step; a section that calls client code (a creator, an initializer) is   *)
(* split at the client call, so the states in which client code runs are   *)
(* visible. Each thread has a call stack of frames, because client code    *)
(* may call back into the registry.                                        *)
(***************************************************************************)
EXTENDS Integers, Sequences, FiniteSets, TLC

----------------------------------------------------------------------------
(* Bounds of the model *)

\* public calls in one run, over all threads
MaxCalls == 3
\* registrations in one run (bounds the length of the init queues)
MaxRegs == 2
\* registry calls in flight that were made from client code (nesting depth)
MaxNest == 1

Threads == {"t1", "t2"}
NoThread == "none"

\* class names and instance names are strings, modelled as sequences of characters
ClassNames == {<<"A">>, <<"B">>}
NamedClasses == {<<"A">>}
InstanceNames == {<<"n">>}
\* class names, one of them containing the separator of makeFullName
SeparatorClassNames == {<<"A">>, <<"A", "#", "n">>}
\* instance names of one class, the empty name among them
NameArgs == {<<>>, <<"n">>}

\* priorities passed to register*, and bounds passed to the batch operations
PriorityArgs == {-5, 10}
\* priorities below and above the range, bounds at and inside its ends
OutOfRangeArgs == {-5, 99}
BoundArgs == {0, 9, 10}
BatchArgs == {0, 99}

----------------------------------------------------------------------------
(* Program constants *)

DefaultPriority == 5
MinPriority == 0
MaxPriority == 10

\* an empty shared_ptr
nullptr == 0

\* std::mutex::lock() called by the thread that already owns the mutex is
\* undefined behaviour. What builds do, each a step of the model:
\*   RelockDeadlocks  the thread blocks forever (the pthread default mutex),
\*   RelockThrows     lock() throws std::system_error
\*                    (resource_deadlock_would_occur, a checking mutex),
\*   CanEnter         the lock is acquired again: lock and unlock are counted,
\*                    or are no-ops as in a build without thread support.

----------------------------------------------------------------------------
(* Pure helpers *)

clamp(v, lo, hi) == IF v < lo THEN lo ELSE IF hi < v THEN hi ELSE v

\* a variant that joins the two names without the separator
makeFullNameUnseparated(class_name, instance_name) == class_name \o instance_name

makeFullName(class_name, instance_name) == class_name \o <<"#">> \o instance_name

\* the keys the bounded inputs can address
Keys == ClassNames \cup SeparatorClassNames \cup {makeFullName(c, n) : c \in NamedClasses,
                                               n \in InstanceNames \cup NameArgs}

\* std::unordered_map<K,V> as a function with a finite domain
EmptyMap == [x \in {} |-> x]
Contains(map, k) == k \in DOMAIN map
Put(map, k, v) == [x \in (DOMAIN map) \cup {k} |-> IF x = k THEN v ELSE map[x]]

Last(s) == s[Len(s)]
Front(s) == SubSeq(s, 1, Len(s) - 1)

\* results that travel up the call stack: a returned handle, a returned void,
\* or an exception in flight (a std::exception, or any other type)
Result(op, key, arg, res, warn) ==
    [op |-> op, key |-> key, arg |-> arg, res |-> res, warn |-> warn]
Val(v) == [v |-> v, kind |-> "val"]
Void == [v |-> nullptr, kind |-> "void"]
Exc(what) == [v |-> nullptr, kind |-> what]
NoRes == [v |-> nullptr, kind |-> "none"]

----------------------------------------------------------------------------
(* State *)

VARIABLES
    mutex_,        \* [owner, count]: who holds the registry mutex
    creators_,     \* key -> the stored creator (std::function)
    instances_,    \* key -> cached instance
    init_queues_,  \* priority -> sequence of queued init closures
    stack,         \* thread -> call stack of frames
    ret,           \* thread -> what its last public call gave its caller
    calls,         \* public calls the run may still make
    objs,          \* history: every instance ever made, by id
    life,          \* history: per key, what happened since its last registration
    regs,          \* registrations the run may still make
    faults,        \* history: client creators and initializers that failed so far
    pre,           \* history: thread -> the registry when its current call began
    evlog          \* history: thread -> client code invoked by its current call

vars == <<mutex_, creators_, instances_, init_queues_, stack, ret, calls,
          objs, life, regs, faults, pre, evlog>>

registry == <<creators_, instances_, init_queues_>>

FreeMutex == [owner |-> NoThread, count |-> 0]
Acquire(m, t) == [owner |-> t, count |-> m.count + 1]
Unlock(m) == IF m.count <= 1 THEN FreeMutex ELSE [m EXCEPT !.count = @ - 1]

\* lock() returns: the mutex is free, or the caller owns it and the build
\* acquires it again
CanEnter(t) == mutex_.owner \in {NoThread, t}

\* Per key, since it was last registered (or the registry cleared):
\*   regs   registrations of the key since the last clear
\*   fresh  no instance was cached for the key when it was registered
\*   att    calls of its creator;  succ  those that returned an instance
\*   seen   instances published for it or handed out by a lookup of it
\*   by     the public operations whose lookups or batch items reached it
\*   gets   getInstance calls for it that returned to their caller
NewLife == [regs |-> 0, fresh |-> TRUE, att |-> 0, succ |-> 0, seen |-> {},
            by |-> {}, gets |-> 0]

Snapshot == [creators |-> creators_, instances |-> instances_, queues |-> init_queues_]

\* The stored creator. wrap tells what the stored std::function is:
\*   "creator"          the client's creator itself
\*   "creatorWithInit"  try { client creator; if (instance) client init } catch std
\*   "class"            try { make_shared<T>() } catch std
\*   "classWithInit"    try { make_shared<T>(); if (init_func) init_func } catch std
\* id tells one registration of a key from the next (f1, f2); prio and raw
\* are history: the clamped priority this registration was queued at and the
\* priority argument it was called with; so is seq, which orders the
\* registrations of a run: the registrations the run could still make, so the
\* earlier registration has the greater seq.
Creator(wrap, hasInit) ==
    [wrap |-> wrap, hasInit |-> hasInit, id |-> 0, prio |-> 0, raw |-> 0, seq |-> 0]
NoCreator == Creator("none", FALSE)

\* One activation of a function of the registry:
\*   fn, key    the function and the map key it works on
\*   pc         where it stands
\*   instance   lazyCreate*: the local `instance`
\*   cr         lazyCreate*: the stored creator it->second being run
\*   nested     client initializer: registry calls it has made
\*   asked,got  client initializer: the class it asked for, the handle it got
\*   inits,i    batch: the snapshot, the loop index
\*   arg,m      batch: the priority bound as passed, and clamped
\*   taken      batch: the registrations left (regs) when the snapshot was made
Frame(fn, key, pc) ==
    [key |-> key, arg |-> 0, m |-> 0, fn |-> fn, pc |-> pc, instance |-> nullptr,
     cr |-> NoCreator, inits |-> <<>>, i |-> 0, nested |-> 0, asked |-> <<>>,
     got |-> nullptr, taken |-> 0]

\* the registry as constructed, before a run of n public calls
InitWith(n, r) ==
    /\ mutex_ = FreeMutex
    /\ creators_ = EmptyMap
    /\ instances_ = EmptyMap
    /\ init_queues_ = EmptyMap
    /\ stack = [t \in Threads |-> <<>>]
    /\ ret = [t \in Threads |-> Result("none", <<>>, 0, NoRes, FALSE)]
    /\ calls = n
    /\ objs = <<>>
    /\ life = [k \in Keys |-> NewLife]
    /\ regs = r
    /\ faults = 0
    /\ pre = [t \in Threads |-> Snapshot]
    /\ evlog = [t \in Threads |-> <<>>]

InitFor(n) == InitWith(n, MaxRegs)

Init == InitFor(MaxCalls)

----------------------------------------------------------------------------
(* Calls and returns *)

Idle(t) == stack[t] = <<>>
InCall(t) == stack[t] # <<>>
CanCall(t) == Idle(t) /\ calls > 0

Top(t) == Last(stack[t])
At(t, fns, pc) == InCall(t) /\ Top(t).fn \in fns /\ Top(t).pc = pc

LazyFns == {"lazyCreateInstance", "lazyCreateInstanceWithInit",
            "lazyCreateNamedInstance", "lazyCreateNamedInstanceWithInit"}
GetFns == {"getInstance", "getInstanceByName"}
ForceFns == {"forceInit", "forceInitNamed"}
BatchFns == {"executePriorInits", "executeInitsAtPriority"}

\* lazyCreate* frames on a stack: 1 for a direct lookup or batch item
Depth(stk) == Cardinality({j \in 1..Len(stk) : stk[j].fn \in LazyFns})

\* A public call that is one critical section and calls no client code:
\* it runs when the mutex is free and returns at once.
AtomicCallWith(t, op, key, arg, res, warn) ==
    /\ CanCall(t)
    /\ mutex_.owner = NoThread
    /\ calls' = calls - 1
    /\ ret' = [ret EXCEPT ![t] = Result(op, key, arg, res, warn)]
    /\ pre' = [pre EXCEPT ![t] = Snapshot]
    /\ evlog' = [evlog EXCEPT ![t] = <<>>]
    /\ UNCHANGED <<mutex_, stack, objs, faults>>

AtomicCall(t, op, key, res, warn) == AtomicCallWith(t, op, key, 0, res, warn)

----------------------------------------------------------------------------
(* Registration *)

addToInitQueue(queues, priority, init_func) ==
    Put(queues, priority,
        IF Contains(queues, priority) THEN Append(queues[priority], init_func)
        ELSE <<init_func>>)

\* the closure register* queues: a call of lazyCreate*(key)
InitItem(fn, key) == [key |-> key, fn |-> fn]

\* creators_[key] = ...; addToInitQueue(key, clamp(priority), ...)
\* a variant that builds eagerly: the registration caches an instance
InstallEager(key, cr, fn, priority) ==
    LET p == clamp(priority, MinPriority, MaxPriority) IN
    /\ regs > 0
    /\ creators_' = Put(creators_, key, [cr EXCEPT !.id = life[key].regs + 1, !.prio = p,
                                                   !.raw = priority, !.seq = regs])
    /\ init_queues_' = addToInitQueue(init_queues_, p, InitItem(fn, key))
    /\ instances_' = Put(instances_, key, Len(objs) + 1)
    /\ life' = [life EXCEPT ![key] = [NewLife EXCEPT !.regs = life[key].regs + 1,
                                                   !.fresh = ~Contains(instances_, key)]]
    /\ regs' = regs - 1

Install(key, cr, fn, priority) ==
    LET p == clamp(priority, MinPriority, MaxPriority) IN
    /\ regs > 0
    /\ creators_' = Put(creators_, key, [cr EXCEPT !.id = life[key].regs + 1, !.prio = p,
                                                   !.raw = priority, !.seq = regs])
    /\ init_queues_' = addToInitQueue(init_queues_, p, InitItem(fn, key))
    /\ life' = [life EXCEPT ![key] = [NewLife EXCEPT !.regs = life[key].regs + 1,
                                                   !.fresh = ~Contains(instances_, key)]]
    /\ regs' = regs - 1
    /\ UNCHANGED instances_

\* the overwriting registrations warn when the key exists and install anyway
RegisterOverwriting(t, op, key, cr, fn, priority) ==
    /\ AtomicCall(t, op, key, Void, Contains(creators_, key))
    /\ Install(key, cr, fn, priority)

\* the class registrations return silently when the key exists
RegisterIfAbsent(t, op, key, cr, fn, priority) ==
    /\ AtomicCall(t, op, key, Void, FALSE)
    /\ IF Contains(creators_, key)
       THEN UNCHANGED <<creators_, instances_, init_queues_, life, regs>>
       ELSE Install(key, cr, fn, priority)

registerCreator(t, class_name, priority) ==
    RegisterOverwriting(t, "registerCreator", class_name,
        Creator("creator", FALSE), "lazyCreateInstance", priority)

registerCreatorWithInit(t, class_name, priority) ==
    RegisterOverwriting(t, "registerCreatorWithInit", class_name,
        Creator("creatorWithInit", TRUE), "lazyCreateInstance", priority)

registerNamedCreator(t, class_name, instance_name, priority) ==
    RegisterOverwriting(t, "registerNamedCreator", makeFullName(class_name, instance_name),
        Creator("creator", FALSE), "lazyCreateNamedInstance", priority)

registerNamedCreatorWithInit(t, class_name, instance_name, priority) ==
    RegisterOverwriting(t, "registerNamedCreatorWithInit",
        makeFullName(class_name, instance_name),
        Creator("creatorWithInit", TRUE), "lazyCreateNamedInstance", priority)

\* The free functions of the header. Each is one call of a member; what the
\* caller passed as priority is kept in the result, what the member receives
\* is the last argument. The empty initializer [](T&) {} of the <T> forms
\* does nothing, so the stored creator has no initializer to run.
RegisterThrough(t, op, arg, key, cr, fn, priority) ==
    /\ AtomicCallWith(t, op, key, arg, Void, Contains(creators_, key))
    /\ Install(key, cr, fn, priority)

free_registerCreator(t, class_name, priority) ==
    RegisterThrough(t, "::registerCreator", priority, class_name,
        Creator("creator", FALSE), "lazyCreateInstance", priority)

\* registerCreatorWithInit<T>(class_name, creator_lambda, [](T&) {}): the
\* priority is not passed on and the member takes its default
free_registerCreator_T(t, class_name, priority) ==
    RegisterThrough(t, "::registerCreator<T>", priority, class_name,
        Creator("creatorWithInit", FALSE), "lazyCreateInstance", DefaultPriority)

free_registerCreatorWithInit_T(t, class_name, priority) ==
    RegisterThrough(t, "::registerCreatorWithInit<T>", priority, class_name,
        Creator("creatorWithInit", TRUE), "lazyCreateInstance", priority)

free_registerNamedCreator(t, class_name, instance_name, priority) ==
    RegisterThrough(t, "::registerNamedCreator", priority,
        makeFullName(class_name, instance_name),
        Creator("creator", FALSE), "lazyCreateNamedInstance", priority)

free_registerNamedCreator_T(t, class_name, instance_name, priority) ==
    RegisterThrough(t, "::registerNamedCreator<T>", priority,
        makeFullName(class_name, instance_name),
        Creator("creatorWithInit", FALSE), "lazyCreateNamedInstance", priority)

free_registerNamedCreatorWithInit_T(t, class_name, instance_name, priority) ==
    RegisterThrough(t, "::registerNamedCreatorWithInit<T>", priority,
        makeFullName(class_name, instance_name),
        Creator("creatorWithInit", TRUE), "lazyCreateNamedInstance", priority)

registerClass(t, class_name, priority) ==
    RegisterIfAbsent(t, "registerClass", class_name,
        Creator("class", FALSE), "lazyCreateInstance", priority)

registerClassWithInit(t, class_name, has_init_func, priority) ==
    RegisterIfAbsent(t, "registerClassWithInit", class_name,
        Creator("classWithInit", has_init_func), "lazyCreateInstanceWithInit", priority)

registerNamedInstance(t, instance_name, class_name, priority) ==
    RegisterIfAbsent(t, "registerNamedInstance", makeFullName(class_name, instance_name),
        Creator("class", FALSE), "lazyCreateNamedInstance", priority)

registerNamedInstanceWithInit(t, instance_name, class_name, has_init_func, priority) ==
    RegisterIfAbsent(t, "registerNamedInstanceWithInit",
        makeFullName(class_name, instance_name),
        Creator("classWithInit", has_init_func), "lazyCreateNamedInstanceWithInit", priority)

----------------------------------------------------------------------------
(* Returning up the call stack *)

\* Deliver(stk, m, res): result res reaches the top frame of stk while the
\* mutex is m. Frames that only pass a result on are unwound at once (their
\* lock_guards unlock); the result stops at a frame that goes on running.
RECURSIVE Deliver(_, _, _)
Deliver(stk, m, res) ==
    IF stk = <<>> THEN [stk |-> stk, mtx |-> m, out |-> res]
    ELSE LET f == Last(stk)
             rest == Front(stk)
         IN CASE f.fn \in GetFns ->
                    \* return lazyCreate*(...): the lock_guard of getInstance unlocks
                    Deliver(rest, Unlock(m), res)
              [] f.fn \in ForceFns \cup {"executeAllInits"} ->
                    Deliver(rest, m, res)
              [] f.fn \in BatchFns ->
                    \* try { inits[i](); } catch (std::exception) catch (...): next item
                    [stk |-> Append(rest, [f EXCEPT !.i = @ + 1]), mtx |-> m, out |-> NoRes]
              [] f.fn \in LazyFns ->
                    \* the client initializer called the registry, inside the stored
                    \* creator, inside the second critical section of lazyCreate*
                    IF res.kind = "val"
                    THEN [stk |-> Append(rest, [f EXCEPT !.got = res.v]), mtx |-> m,
                          out |-> NoRes]
                    ELSE IF res.kind = "std"
                    THEN \* the wrapper catches it and returns nullptr; lazyCreate*
                         \* unlocks, skips the publication and returns nullptr
                         Deliver(rest, Unlock(m), Val(nullptr))
                    ELSE \* not a std::exception: nothing catches it here
                         Deliver(rest, Unlock(m), res)

\* The top frame of t returns res (or throws it); m is the mutex as that
\* frame leaves it, lf the history of the keys as the step leaves it.
Return(t, m, res, lf) ==
    LET d == Deliver(Front(stack[t]), m, res)
        b == stack[t][1]
    IN /\ stack' = [stack EXCEPT ![t] = d.stk]
       /\ mutex_' = d.mtx
       /\ ret' = IF d.stk = <<>>
                 THEN [ret EXCEPT ![t] = Result(b.fn, b.key, b.arg, d.out, FALSE)]
                 ELSE ret
       /\ life' = IF d.stk = <<>> /\ b.fn = "getInstance" /\ d.out.kind = "val"
                  THEN [lf EXCEPT ![b.key].gets = @ + 1]
                  ELSE lf

SetTop(t, f) == stack' = [stack EXCEPT ![t] = Append(Front(stack[t]), f)]

\* a public call that takes several steps starts: its frames are pushed
Enter(t, frames) ==
    /\ CanCall(t)
    /\ stack' = [stack EXCEPT ![t] = frames]
    /\ calls' = calls - 1
    /\ pre' = [pre EXCEPT ![t] = Snapshot]
    /\ evlog' = [evlog EXCEPT ![t] = <<>>]
    /\ UNCHANGED <<mutex_, registry, ret, objs, regs, faults>>

\* a lookup of key k starts
EnterLookup(t, frames, k) ==
    /\ Enter(t, frames)
    /\ life' = [life EXCEPT ![k].by = @ \cup {frames[1].fn}]

Saw(k, v) == [life EXCEPT ![k].seen = IF v = nullptr THEN @ ELSE @ \cup {v}]
Event(t, ev, key) == [key |-> key, ev |-> ev, depth |-> Depth(stack[t])]

\* the places where a frame locks the mutex
LockPcs == {"G1", "L1", "L2", "L3", "collect", "print"}
Relocks(t) == InCall(t) /\ Top(t).pc \in LockPcs /\ mutex_.owner = t

\* lock() on a mutex the caller owns: the thread blocks for ever
RelockDeadlocks(t) ==
    /\ Relocks(t)
    /\ SetTop(t, [Top(t) EXCEPT !.pc = "deadlocked"])
    /\ UNCHANGED <<mutex_, registry, ret, calls, objs, life, regs, faults, pre, evlog>>

\* lock() on a mutex the caller owns: std::system_error is thrown
RelockThrows(t) ==
    /\ Relocks(t)
    /\ Return(t, mutex_, Exc("std"), life)
    /\ evlog' = [evlog EXCEPT ![t] = Append(@, Event(t, "system_error", Top(t).key))]
    /\ UNCHANGED <<registry, calls, objs, regs, faults, pre>>

----------------------------------------------------------------------------
(* lazyCreateInstance, lazyCreateInstanceWithInit, lazyCreateNamedInstance,
   lazyCreateNamedInstanceWithInit: the four bodies are the same *)

\* a first critical section that does not look at the cache
LazyCheckCacheIgnored(t) ==
    /\ At(t, LazyFns, "L1")
    /\ CanEnter(t)
    /\ SetTop(t, [Top(t) EXCEPT !.pc = "L2"])
    /\ UNCHANGED <<mutex_, ret, life>>
    /\ UNCHANGED <<registry, calls, objs, regs, faults, pre, evlog>>

\* first critical section: return the cached instance, if any
LazyCheckCache(t) ==
    /\ At(t, LazyFns, "L1")
    /\ CanEnter(t)
    /\ LET f == Top(t) IN
       IF Contains(instances_, f.key)
       THEN Return(t, mutex_, Val(instances_[f.key]), Saw(f.key, instances_[f.key]))
       ELSE /\ SetTop(t, [f EXCEPT !.pc = "L2"])
            /\ UNCHANGED <<mutex_, ret, life>>
    /\ UNCHANGED <<registry, calls, objs, regs, faults, pre, evlog>>

\* second critical section: find the creator and call it, holding the lock
LazyFindCreator(t) ==
    /\ At(t, LazyFns, "L2")
    /\ CanEnter(t)
    /\ LET f == Top(t) IN
       IF ~Contains(creators_, f.key)
       THEN /\ Return(t, mutex_, Val(nullptr), life)
            /\ UNCHANGED evlog
       ELSE /\ mutex_' = Acquire(mutex_, t)
            /\ SetTop(t, [f EXCEPT !.pc = "creator", !.cr = creators_[f.key]])
            /\ life' = [life EXCEPT ![f.key].att = @ + 1]
            /\ evlog' = [evlog EXCEPT ![t] = Append(@, Event(t, "create", f.key))]
            /\ UNCHANGED ret
    /\ UNCHANGED <<registry, calls, objs, regs, faults, pre>>

\* the client's creator (or T's constructor) returns an instance
CreatorSucceeds(t) ==
    /\ At(t, LazyFns, "creator")
    /\ LET f == Top(t)
           obj == Len(objs) + 1
       IN /\ objs' = Append(objs, [key |-> f.key, id |-> f.cr.id, inited |-> FALSE])
          /\ life' = [life EXCEPT ![f.key].succ = @ + 1]
          /\ IF f.cr.hasInit
             THEN \* if (instance) init_lambda(*instance): still inside the creator
                  /\ SetTop(t, [f EXCEPT !.pc = "init", !.instance = obj])
                  /\ evlog' = [evlog EXCEPT ![t] = Append(@, Event(t, "init", f.key))]
                  /\ UNCHANGED mutex_
             ELSE /\ SetTop(t, [f EXCEPT !.pc = "L3", !.instance = obj])
                  /\ mutex_' = Unlock(mutex_)
                  /\ UNCHANGED evlog
    /\ UNCHANGED <<registry, ret, calls, regs, faults, pre>>

\* the client's creator returns an empty handle (make_shared never does)
CreatorReturnsEmpty(t) ==
    /\ At(t, LazyFns, "creator")
    /\ Top(t).cr.wrap \in {"creator", "creatorWithInit"}
    /\ Return(t, Unlock(mutex_), Val(nullptr), life)
    /\ faults' = faults + 1
    /\ evlog' = [evlog EXCEPT ![t] = Append(@, Event(t, "create_failed", Top(t).key))]
    /\ UNCHANGED <<registry, calls, objs, regs, pre>>

\* a variant in which nothing catches what the creator throws: it ends the
\* public call
CreatorThrowsUncaught(t, what) ==
    /\ At(t, LazyFns, "creator")
    /\ stack' = [stack EXCEPT ![t] = <<>>]
    /\ mutex_' = FreeMutex
    /\ ret' = [ret EXCEPT ![t] = Result(stack[t][1].fn, stack[t][1].key, stack[t][1].arg,
                                        Exc(what), FALSE)]
    /\ faults' = faults + 1
    /\ evlog' = [evlog EXCEPT ![t] = Append(@, Event(t, "create_failed", Top(t).key))]
    /\ UNCHANGED <<registry, calls, objs, life, regs, pre>>

\* the creator throws: a std::exception is caught (by the wrapper, or by
\* lazyCreate*) and nullptr is returned; anything else leaves lazyCreate*
CreatorThrows(t, what) ==
    /\ At(t, LazyFns, "creator")
    /\ Return(t, Unlock(mutex_), IF what = "std" THEN Val(nullptr) ELSE Exc(what), life)
    /\ faults' = faults + 1
    /\ evlog' = [evlog EXCEPT ![t] = Append(@, Event(t, "create_failed", Top(t).key))]
    /\ UNCHANGED <<registry, calls, objs, regs, pre>>

\* the client's initializer returns
InitSucceeds(t) ==
    /\ At(t, LazyFns, "init")
    /\ LET f == Top(t) IN
       /\ objs' = [objs EXCEPT ![f.instance].inited = TRUE]
       /\ SetTop(t, [f EXCEPT !.pc = "L3"])
       /\ mutex_' = Unlock(mutex_)
    /\ UNCHANGED <<registry, ret, calls, life, regs, faults, pre, evlog>>

\* a variant in which what the initializer throws is caught nowhere and the
\* lock_guard of lazyCreate* is not unwound
InitThrowsUncaught(t, what) ==
    /\ At(t, LazyFns, "init")
    /\ stack' = [stack EXCEPT ![t] = <<>>]
    /\ ret' = [ret EXCEPT ![t] = Result(stack[t][1].fn, stack[t][1].key, stack[t][1].arg,
                                        Exc(what), FALSE)]
    /\ faults' = faults + 1
    /\ evlog' = [evlog EXCEPT ![t] = Append(@, Event(t, "init_failed", Top(t).key))]
    /\ UNCHANGED <<mutex_, registry, calls, objs, life, regs, pre>>

\* the client's initializer throws: the wrapper turns a std::exception into
\* nullptr and the instance just made is dropped
InitThrows(t, what) ==
    /\ At(t, LazyFns, "init")
    /\ Return(t, Unlock(mutex_), IF what = "std" THEN Val(nullptr) ELSE Exc(what), life)
    /\ faults' = faults + 1
    /\ evlog' = [evlog EXCEPT ![t] = Append(@, Event(t, "init_failed", Top(t).key))]
    /\ UNCHANGED <<registry, calls, objs, regs, pre>>

\* the client's initializer asks the registry for a peer
InitCallsGetInstance(t, class_name) ==
    /\ At(t, LazyFns, "init")
    /\ Top(t).nested = 0
    /\ Depth(stack[t]) <= MaxNest
    /\ stack' = [stack EXCEPT ![t] =
                    Append(Append(Front(@), [Top(t) EXCEPT !.nested = 1,
                                                           !.asked = class_name]),
                           Frame("getInstance", class_name, "G1"))]
    /\ life' = [life EXCEPT ![class_name].by = @ \cup {stack[t][1].fn}]
    /\ UNCHANGED <<mutex_, registry, ret, calls, objs, regs, faults, pre, evlog>>

\* if (instance) { lock; instances_[key] = instance; } return instance
LazyPublish(t) ==
    /\ At(t, LazyFns, "L3")
    /\ CanEnter(t)
    /\ LET f == Top(t) IN
       /\ instances_' = Put(instances_, f.key, f.instance)
       /\ Return(t, mutex_, Val(f.instance), Saw(f.key, f.instance))
    /\ UNCHANGED <<creators_, init_queues_, calls, objs, regs, faults, pre, evlog>>

----------------------------------------------------------------------------
(* Lookups *)

getInstance(t, class_name) ==
    EnterLookup(t, <<Frame("getInstance", class_name, "G1")>>, class_name)

getInstanceByName(t, instance_name, class_name) ==
    LET full_name == makeFullName(class_name, instance_name) IN
    EnterLookup(t, <<Frame("getInstanceByName", full_name, "G1")>>, full_name)

\* lock; return the cached instance, or call lazyCreate* with the lock held
GetCheckCache(t) ==
    /\ At(t, GetFns, "G1")
    /\ CanEnter(t)
    /\ LET f == Top(t)
           lazy == IF f.fn = "getInstance" THEN "lazyCreateInstance"
                   ELSE "lazyCreateNamedInstance"
       IN IF Contains(instances_, f.key)
          THEN Return(t, mutex_, Val(instances_[f.key]), Saw(f.key, instances_[f.key]))
          ELSE /\ mutex_' = Acquire(mutex_, t)
               /\ stack' = [stack EXCEPT ![t] =
                               Append(Append(Front(@), [f EXCEPT !.pc = "G2"]),
                                      Frame(lazy, f.key, "L1"))]
               /\ UNCHANGED <<ret, life>>
    /\ UNCHANGED <<registry, calls, objs, regs, faults, pre, evlog>>

forceInit(t, class_name) ==
    EnterLookup(t, <<Frame("forceInit", class_name, "call"),
                     Frame("lazyCreateInstance", class_name, "L1")>>, class_name)

forceInitNamed(t, instance_name, class_name) ==
    LET full_name == makeFullName(class_name, instance_name) IN
    EnterLookup(t, <<Frame("forceInitNamed", full_name, "call"),
                     Frame("lazyCreateNamedInstance", full_name, "L1")>>, full_name)

hasInstance(t, class_name) ==
    /\ AtomicCall(t, "hasInstance", class_name,
                  [v |-> Contains(instances_, class_name), kind |-> "bool"], FALSE)
    /\ UNCHANGED <<registry, life, regs>>

hasNamedInstance(t, instance_name, class_name) ==
    LET full_name == makeFullName(class_name, instance_name) IN
    /\ AtomicCall(t, "hasNamedInstance", full_name,
                  [v |-> Contains(instances_, full_name), kind |-> "bool"], FALSE)
    /\ UNCHANGED <<registry, life, regs>>

getInstanceCount(t) ==
    /\ AtomicCall(t, "getInstanceCount", <<>>,
                  [v |-> Cardinality(DOMAIN instances_), kind |-> "size"], FALSE)
    /\ UNCHANGED <<registry, life, regs>>

getRegisteredCount(t) ==
    /\ AtomicCall(t, "getRegisteredCount", <<>>,
                  [v |-> Cardinality(DOMAIN creators_), kind |-> "size"], FALSE)
    /\ UNCHANGED <<registry, life, regs>>

\* a printInstances that also empties the cache
printInstancesErasing(t) ==
    /\ AtomicCall(t, "printInstances", <<>>, Void, FALSE)
    /\ instances_' = EmptyMap
    /\ UNCHANGED <<creators_, init_queues_, life, regs>>

\* lock; write instances_.size() and each key and address to std::cout
printInstances(t) ==
    /\ AtomicCall(t, "printInstances", <<>>, Void, FALSE)
    /\ UNCHANGED <<registry, life, regs>>

\* lock; write the length of each non-empty queue to std::cout
printInitQueues(t) ==
    /\ AtomicCall(t, "printInitQueues", <<>>, Void, FALSE)
    /\ UNCHANGED <<registry, life, regs>>

\* lock; write creators_.size() and each key to std::cout
printCreators(t) ==
    /\ AtomicCall(t, "printCreators", <<>>, Void, FALSE)
    /\ UNCHANGED <<registry, life, regs>>

clear(t) ==
    /\ AtomicCall(t, "clear", <<>>, Void, FALSE)
    /\ instances_' = EmptyMap
    /\ creators_' = EmptyMap
    /\ init_queues_' = EmptyMap
    /\ life' = [k \in Keys |-> NewLife]
    /\ UNCHANGED regs

----------------------------------------------------------------------------
(* Batch initialization *)

RECURSIVE collectFrom(_, _, _)
collectFrom(queues, priority, max_priority) ==
    IF priority > max_priority THEN <<>>
    ELSE (IF Contains(queues, priority) THEN queues[priority] ELSE <<>>)
         \o collectFrom(queues, priority + 1, max_priority)

\* a variant that walks the queues from max_priority down to MinPriority
RECURSIVE collectDownFrom(_, _, _)
collectDownFrom(queues, priority, max_priority) ==
    IF priority > max_priority THEN <<>>
    ELSE collectDownFrom(queues, priority + 1, max_priority)
         \o (IF Contains(queues, priority) THEN queues[priority] ELSE <<>>)

collectInitsDownFromPriority(queues, max_priority) ==
    collectDownFrom(queues, MinPriority, max_priority)

collectInitsUpToPriority(queues, max_priority) ==
    collectFrom(queues, MinPriority, max_priority)

collectInitsAtPriority(queues, priority) ==
    IF Contains(queues, priority) THEN queues[priority] ELSE <<>>

\* a variant that uses the bound as passed
BatchFrameUnclamped(fn, bound) ==
    [Frame(fn, <<>>, "collect") EXCEPT !.arg = bound, !.m = bound]

BatchFrame(fn, bound) ==
    [Frame(fn, <<>>, "collect") EXCEPT !.arg = bound,
                                       !.m = clamp(bound, MinPriority, MaxPriority)]

executePriorInits(t, max_priority) ==
    /\ Enter(t, <<BatchFrame("executePriorInits", max_priority)>>)
    /\ UNCHANGED life

\* a variant that runs the lowest priority only
executeAllInitsLowest(t) ==
    /\ Enter(t, <<[Frame("executeAllInits", <<>>, "call") EXCEPT !.arg = MaxPriority],
                  BatchFrame("executePriorInits", MinPriority)>>)
    /\ UNCHANGED life

executeAllInits(t) ==
    /\ Enter(t, <<[Frame("executeAllInits", <<>>, "call") EXCEPT !.arg = MaxPriority],
                  BatchFrame("executePriorInits", MaxPriority)>>)
    /\ UNCHANGED life

executeInitsAtPriority(t, priority) ==
    /\ Enter(t, <<BatchFrame("executeInitsAtPriority", priority)>>)
    /\ UNCHANGED life

\* the snapshot, taken under the lock
BatchCollect(t) ==
    /\ At(t, BatchFns, "collect")
    /\ CanEnter(t)
    /\ LET f == Top(t)
           inits == IF f.fn = "executePriorInits"
                    THEN collectInitsUpToPriority(init_queues_, f.m)
                    ELSE collectInitsAtPriority(init_queues_, f.m)
       IN SetTop(t, [f EXCEPT !.pc = "loop", !.inits = inits, !.i = 1, !.taken = regs])
    /\ UNCHANGED <<mutex_, registry, ret, calls, objs, life, regs, faults, pre, evlog>>

\* executeAllCollectedInits: inits[i]() is a call of lazyCreate*(key)
BatchInvoke(t) ==
    /\ At(t, BatchFns, "loop")
    /\ LET f == Top(t) IN
       /\ f.i <= Len(f.inits)
       /\ stack' = [stack EXCEPT ![t] =
                       Append(@, Frame(f.inits[f.i].fn, f.inits[f.i].key, "L1"))]
       /\ life' = [life EXCEPT ![f.inits[f.i].key].by = @ \cup {stack[t][1].fn}]
    /\ UNCHANGED <<mutex_, registry, ret, calls, objs, regs, faults, pre, evlog>>

\* the loop is over: executePriorInits goes on to print the instance count
BatchLoopEnds(t) ==
    /\ At(t, BatchFns, "loop")
    /\ LET f == Top(t) IN
       /\ f.i > Len(f.inits)
       /\ IF f.fn = "executePriorInits"
          THEN SetTop(t, [f EXCEPT !.pc = "print"]) /\ UNCHANGED <<mutex_, ret, life>>
          ELSE Return(t, mutex_, Void, life)
    /\ UNCHANGED <<registry, calls, objs, regs, faults, pre, evlog>>

\* lock; print instances_.size()
BatchPrint(t) ==
    /\ At(t, {"executePriorInits"}, "print")
    /\ CanEnter(t)
    /\ Return(t, mutex_, Void, life)
    /\ UNCHANGED <<registry, calls, objs, regs, faults, pre, evlog>>

----------------------------------------------------------------------------
(* The system *)

Register(t) ==
    \E c \in ClassNames, p \in PriorityArgs :
        \/ registerCreator(t, c, p)
        \/ registerCreatorWithInit(t, c, p)
        \/ registerClass(t, c, p)
        \/ \E h \in BOOLEAN : registerClassWithInit(t, c, h, p)
        \/ \E n \in InstanceNames :
              /\ c \in NamedClasses
              /\ \/ registerNamedCreator(t, c, n, p)
                 \/ registerNamedCreatorWithInit(t, c, n, p)
                 \/ registerNamedInstance(t, n, c, p)
                 \/ \E h \in BOOLEAN : registerNamedInstanceWithInit(t, n, c, h, p)

Call(t) ==
    \/ \E c \in ClassNames :
          \/ getInstance(t, c)
          \/ forceInit(t, c)
          \/ hasInstance(t, c)
          \/ \E n \in InstanceNames :
                /\ c \in NamedClasses
                /\ \/ getInstanceByName(t, n, c)
                   \/ forceInitNamed(t, n, c)
                   \/ hasNamedInstance(t, n, c)
    \/ getInstanceCount(t)
    \/ getRegisteredCount(t)
    \/ clear(t)
    \/ executeAllInits(t)
    \/ \E m \in BatchArgs : executePriorInits(t, m) \/ executeInitsAtPriority(t, m)

StepLookup(t) ==
    \/ RelockDeadlocks(t)
    \/ RelockThrows(t)
    \/ GetCheckCache(t)
    \/ LazyCheckCache(t)
    \/ LazyFindCreator(t)
    \/ CreatorSucceeds(t)
    \/ CreatorReturnsEmpty(t)
    \/ \E what \in {"std", "other"} : CreatorThrows(t, what) \/ InitThrows(t, what)
    \/ InitSucceeds(t)
    \/ \E c \in ClassNames : InitCallsGetInstance(t, c)
    \/ LazyPublish(t)

StepBatch(t) ==
    \/ BatchCollect(t)
    \/ BatchInvoke(t)
    \/ BatchLoopEnds(t)
    \/ BatchPrint(t)

Step(t) == StepLookup(t) \/ StepBatch(t)

\* Two threads. Registration through the two creator-taking functions, and
\* the calls that reach every step of a lookup and of a batch.
RegisterByCreator(t) ==
    \E c \in ClassNames, p \in PriorityArgs :
        registerCreator(t, c, p) \/ registerCreatorWithInit(t, c, p)

CallByClass(t) ==
    \/ \E c \in ClassNames : getInstance(t, c) \/ forceInit(t, c)
    \/ clear(t)
    \/ \E m \in BatchArgs : executePriorInits(t, m)

\* The threads are interchangeable and a registration is one critical
\* section, so it is t1 that registers: t2 registering while t1 is inside a
\* call is t1 registering while t2 is inside that call, with the names swapped.
Next == RegisterByCreator("t1") \/ \E t \in Threads : CallByClass(t) \/ Step(t)

Spec == Init /\ [][Next]_vars

\* One thread, every operation.
NextSeq == Register("t1") \/ Call("t1") \/ Step("t1")

SpecSeq == Init /\ [][NextSeq]_vars

\* One thread, registration by class name and the three batch operations.
CallBatch(t) ==
    \/ executeAllInits(t)
    \/ \E m \in BatchArgs : executePriorInits(t, m) \/ executeInitsAtPriority(t, m)

NextBatch == RegisterByCreator("t1") \/ CallBatch("t1") \/ Step("t1")

SpecBatch == Init /\ [][NextBatch]_vars

\* One thread, one class, one call more: long enough to register a key,
\* build it, register it again and look it up.
RegisterAgain(t) ==
    \E p \in PriorityArgs :
        registerCreator(t, <<"A">>, p) \/ registerCreatorWithInit(t, <<"A">>, p)

NextRereg ==
    \/ RegisterAgain("t1")
    \/ getInstance("t1", <<"A">>)
    \/ forceInit("t1", <<"A">>)
    \/ StepLookup("t1")

SpecRereg == InitFor(MaxCalls + 1) /\ [][NextRereg]_vars

\* One thread, every registration operation with priorities outside 0..10,
\* executePriorInits at the ends of the range and next to its upper end, and
\* executeAllInits.
RegisterOutOfRange(t) ==
    \E c \in ClassNames, p \in OutOfRangeArgs :
        \/ registerCreator(t, c, p)
        \/ registerCreatorWithInit(t, c, p)
        \/ registerClass(t, c, p)
        \/ registerClassWithInit(t, c, TRUE, p)
        \/ \E n \in InstanceNames :
              /\ c \in NamedClasses
              /\ \/ registerNamedCreator(t, c, n, p)
                 \/ registerNamedCreatorWithInit(t, c, n, p)
                 \/ registerNamedInstance(t, n, c, p)
                 \/ registerNamedInstanceWithInit(t, n, c, TRUE, p)

NextClamp ==
    \/ RegisterOutOfRange("t1")
    \/ \E m \in BoundArgs : executePriorInits("t1", m)
    \/ executeAllInits("t1")
    \/ Step("t1")

SpecClamp == Init /\ [][NextClamp]_vars

\* One thread, registration through the free functions, then batches.
RegisterFree(t) ==
    \E c \in ClassNames, p \in PriorityArgs :
        \/ free_registerCreator(t, c, p)
        \/ free_registerCreator_T(t, c, p)
        \/ free_registerCreatorWithInit_T(t, c, p)
        \/ \E n \in InstanceNames :
              /\ c \in NamedClasses
              /\ \/ free_registerNamedCreator(t, c, n, p)
                 \/ free_registerNamedCreator_T(t, c, n, p)
                 \/ free_registerNamedCreatorWithInit_T(t, c, n, p)

NextFree ==
    \/ RegisterFree("t1")
    \/ \E m \in BoundArgs : executePriorInits("t1", m)
    \/ Step("t1")

SpecFree == Init /\ [][NextFree]_vars

\* One thread, one class, its unnamed entry and its named entries, and
\* calls enough to register the three and look each of them up.
RegisterNames(t) ==
    \E p \in PriorityArgs :
        \/ registerCreator(t, <<"A">>, p)
        \/ \E n \in NameArgs : registerNamedCreator(t, <<"A">>, n, p)

CallNames(t) ==
    \/ forceInit(t, <<"A">>)
    \/ \E n \in NameArgs : forceInitNamed(t, n, <<"A">>)

\* the steps of forceInit* on an entry that has no initializer
StepCreate(t) ==
    \/ LazyCheckCache(t)
    \/ LazyFindCreator(t)
    \/ CreatorSucceeds(t)
    \/ CreatorReturnsEmpty(t)
    \/ \E what \in {"std", "other"} : CreatorThrows(t, what)
    \/ LazyPublish(t)

NextNames == RegisterNames("t1") \/ CallNames("t1") \/ StepCreate("t1")

SpecNames == InitWith(MaxCalls + 3, MaxRegs + 1) /\ [][NextNames]_vars

\* One thread, creators without initializer, the batch operations, and
\* calls enough to register a key, another, the first again, and run a batch.
RegisterPlain(t) ==
    \E c \in ClassNames, p \in PriorityArgs : registerCreator(t, c, p)

NextTies ==
    \/ RegisterPlain("t1")
    \/ CallBatch("t1")
    \/ StepCreate("t1")
    \/ StepBatch("t1")

SpecTies == InitWith(MaxCalls + 1, MaxRegs + 1) /\ [][NextTies]_vars

\* One thread; a class, a class whose name contains the separator, and a
\* named entry of the first class.
RegisterKeys(t) ==
    \E p \in PriorityArgs :
        \/ \E c \in SeparatorClassNames : registerCreator(t, c, p)
        \/ registerNamedCreator(t, <<"A">>, <<"n">>, p)

CallKeys(t) ==
    \/ \E c \in SeparatorClassNames : forceInit(t, c)
    \/ forceInitNamed(t, <<"n">>, <<"A">>)

NextKeys == RegisterKeys("t1") \/ CallKeys("t1") \/ StepCreate("t1")

SpecKeys == Init /\ [][NextKeys]_vars

\* One thread, registrations at both ends of the range, and the two bounded
\* batch operations with bounds outside the range.
CallOutOfRange(t) ==
    \E m \in OutOfRangeArgs : executePriorInits(t, m) \/ executeInitsAtPriority(t, m)

NextBound == RegisterByCreator("t1") \/ CallOutOfRange("t1") \/ Step("t1")

SpecBound == Init /\ [][NextBound]_vars

\* One thread: registration, the lookups that build, and the operations
\* that only report on the registry.
Introspect(t) ==
    \/ \E c \in ClassNames :
          \/ hasInstance(t, c)
          \/ \E n \in InstanceNames : c \in NamedClasses /\ hasNamedInstance(t, n, c)
    \/ getInstanceCount(t)
    \/ getRegisteredCount(t)
    \/ printInstances(t)
    \/ printInitQueues(t)
    \/ printCreators(t)

CallLookup(t) == \E c \in ClassNames : getInstance(t, c) \/ forceInit(t, c)

NextIntrospect ==
    \/ RegisterByCreator("t1")
    \/ CallLookup("t1")
    \/ Introspect("t1")
    \/ StepLookup("t1")

SpecIntrospect == Init /\ [][NextIntrospect]_vars

----------------------------------------------------------------------------
(* Properties *)

Frames(t) == {stack[t][j] : j \in 1..Len(stack[t])}
Registered(k) == Contains(creators_, k)
Built(k) == Contains(instances_, k)

\* the positions in the log of t of the client code its call invoked itself
\* (depth 1), as opposed to code reached through a client's own lookup
Invoked(t, ev) == {i \in 1..Len(evlog[t]) : evlog[t][i].ev = ev /\ evlog[t][i].depth = 1}

\* C1: for each key, over concurrent lookups by any number of threads, the
\* creator returns an instance at most once while the registration stands.
C1_AtMostOnceCreation == \A k \in Keys : life[k].succ <= 1

\* C2: all lookups of a key, from whatever thread, yield the same instance:
\* no second instance is ever published for the key or handed to a caller.
C2_SingletonIdentity == \A k \in Keys : Cardinality(life[k].seen) <= 1

\* C3: while a client creator or initializer runs, the thread running it
\* does not hold the registry mutex.
C3_NoLockInClientCode ==
    \A t \in Threads : \A f \in Frames(t) :
        f.pc \in {"creator", "init"} => mutex_.owner # t

Deadlocked(t) == InCall(t) /\ Top(t).pc = "deadlocked"

\* the frame of a client initializer that has asked for a registered peer
AskedPeer(f) ==
    /\ f.fn \in LazyFns /\ f.pc = "init" /\ f.nested = 1
    /\ f.asked # f.key /\ Registered(f.asked)

\* the key whose initializer, started by the call itself, was the last to
\* start before position i of the log of t (<<>> if none)
InitBefore(t, i) ==
    LET S == {h \in 1..(i - 1) : evlog[t][h].ev = "init" /\ evlog[t][h].depth = 1}
    IN IF S = {} THEN <<>> ELSE evlog[t][CHOOSE h \in S : \A g \in S : g <= h].key

\* the lock() at position i of the log of t threw in a lookup of a registered
\* peer of priority <= that of the entry whose initializer made the lookup
PeerLookupThrew(t, i) ==
    LET b == evlog[t][i].key
        a == InitBefore(t, i)
    IN /\ evlog[t][i].ev = "system_error"
       /\ a # <<>> /\ a # b
       /\ Registered(a) /\ Registered(b)
       /\ creators_[b].prio <= creators_[a].prio

\* C4: during executeAllInits, when the initializer of A calls getInstance(B)
\* and B is registered at a priority <= A's (and no client code has failed),
\* the nested call does not block and does not throw, and the handle it
\* returns is non-empty, initialized, and the one cached for B.
C4_ReentrantLookup ==
    \A t \in Threads :
        (InCall(t) /\ stack[t][1].fn = "executeAllInits" /\ faults = 0) =>
            /\ \A j \in 1..Len(stack[t]) :
                  LET f == stack[t][j] IN
                  (AskedPeer(f) /\ creators_[f.asked].prio <= f.cr.prio) =>
                      IF j < Len(stack[t])
                      THEN ~Deadlocked(t)
                      ELSE /\ f.got # nullptr
                           /\ Built(f.asked) /\ instances_[f.asked] = f.got
                           /\ creators_[f.asked].hasInit => objs[f.got].inited
            /\ \A i \in 1..Len(evlog[t]) : ~PeerLookupThrew(t, i)

\* t is inside, or has just left, a call of one of the operations ops
Running(t, ops) == InCall(t) /\ stack[t][1].fn \in ops
Returned(t, ops) == Idle(t) /\ ret[t].op \in ops
Threw(t) == ret[t].res.kind \in {"std", "other"}

\* C5: for a registered key that was unbuilt when registered and has been
\* reached by getInstance only (no batch, no forceInit, no client failure),
\* every getInstance call returns, and once the first has returned the
\* creator has been invoked exactly once and every call has returned the
\* one cached, non-empty instance.
C5_LazyLookup ==
    \A k \in Keys :
        (Registered(k) /\ life[k].fresh /\ life[k].by = {"getInstance"} /\ faults = 0) =>
            /\ \A t \in Threads :
                  /\ (Running(t, {"getInstance"}) /\ stack[t][1].key = k) => ~Deadlocked(t)
                  /\ (Returned(t, {"getInstance"}) /\ ret[t].key = k) => ~Threw(t)
            /\ life[k].gets >= 1 =>
                  /\ life[k].att = 1
                  /\ Built(k) /\ life[k].seen = {instances_[k]}

\* C6: a thread inside a call of a public operation is never left without a
\* step to take while no thread can take one: no call is blocked for ever.
C6_DeadlockFreedom ==
    \A t \in Threads : InCall(t) => \E u \in Threads : ENABLED Step(u)

\* C7: a lookup of a key with no registered entry returns an empty handle,
\* invokes no creator and leaves creators, instances and queues as they were.
C7_MissingRegistration ==
    \A t \in Threads :
        LET ops == GetFns \cup ForceFns IN
        /\ (Running(t, ops) /\ ~Registered(stack[t][1].key)) =>
              /\ ~Deadlocked(t)
              /\ evlog[t] = <<>>
              /\ Snapshot = pre[t]
        /\ (Returned(t, ops) /\ ~Registered(ret[t].key)) =>
              /\ ret[t].res = Val(nullptr)
              /\ evlog[t] = <<>>
              /\ Snapshot = pre[t]

\* C8: within one executePriorInits call, no creator the call invokes starts
\* after an initializer the call invokes has started.
C8_TwoPhaseBatch ==
    \A t \in Threads :
        (Running(t, {"executePriorInits"}) \/ Returned(t, {"executePriorInits"})) =>
            \A i \in Invoked(t, "init"), j \in Invoked(t, "create") : j < i

BatchOps == {"executePriorInits", "executeAllInits"}
RegisteredOnce(k) == Registered(k) /\ life[k].regs = 1

\* C9: in the client code one executePriorInits call invokes, everything of
\* an entry of lower priority comes before everything of an entry of higher
\* priority, for entries registered once.
C9_PriorityOrdering ==
    \A t \in Threads :
        (Running(t, BatchOps) \/ Returned(t, BatchOps)) =>
            \A i, j \in Invoked(t, "create") \cup Invoked(t, "init") :
                LET k1 == evlog[t][i].key
                    k2 == evlog[t][j].key
                IN (/\ RegisteredOnce(k1) /\ RegisteredOnce(k2)
                    /\ creators_[k1].prio < creators_[k2].prio) => i < j

\* a batch has run the creators and initializers of two entries, registered
\* once at different priorities
C9_Witness ==
    \E t \in Threads :
        /\ Returned(t, BatchOps)
        /\ \E i \in Invoked(t, "init"), j \in Invoked(t, "create") :
              /\ RegisteredOnce(evlog[t][i].key) /\ RegisteredOnce(evlog[t][j].key)
              /\ creators_[evlog[t][i].key].prio < creators_[evlog[t][j].key].prio

\* the entries a batch with bound m selects from registry r: registered,
\* of effective priority <= m, not yet built
Selected(r, m) ==
    {k \in DOMAIN r.creators : r.creators[k].prio <= m /\ k \notin DOMAIN r.instances}

\* the keys whose creator ran during the call of t: called by the call itself,
\* and called at all (also through a lookup made by a client initializer)
InvokedKeys(t) == {evlog[t][i].key : i \in Invoked(t, "create")}
CreatedKeys(t) == {evlog[t][i].key : i \in {h \in 1..Len(evlog[t]) : evlog[t][h].ev = "create"}}

\* C10: for m in 0..10, a completed executePriorInits(m) has invoked the
\* creator of exactly the entries that were registered with effective
\* priority <= m and unbuilt when it took its snapshot: it invoked no other
\* creator, and the creator of each of these has run.
C10_BatchSlice ==
    \A t \in Threads :
        (Returned(t, {"executePriorInits"}) /\ ret[t].arg \in MinPriority..MaxPriority) =>
            /\ InvokedKeys(t) \subseteq Selected(pre[t], ret[t].arg)
            /\ Selected(pre[t], ret[t].arg) \subseteq CreatedKeys(t)

\* the positions in the log of t of what went wrong during its call: a
\* client creator or initializer failed, or a lock() threw
EventsOf(t, evs) == {i \in 1..Len(evlog[t]) : evlog[t][i].ev \in evs}
Failures(t) == EventsOf(t, {"create_failed", "init_failed", "system_error"})

\* the clamped bound of the batch call t has returned from
BatchBound(t) == clamp(ret[t].arg, MinPriority, MaxPriority)

Initialized(k) == Built(k) /\ (creators_[k].hasInit => objs[instances_[k]].inited)

\* the one thing that went wrong in the call of t is at position i of its
\* log: a creator the call itself invoked threw or returned empty
OnlyCreatorFailed(t, i) ==
    /\ Failures(t) = {i}
    /\ evlog[t][i].ev = "create_failed" /\ evlog[t][i].depth = 1

\* C11: when a batch run has returned and the one thing that went wrong in
\* it is that the creator of one entry, invoked by the run, threw or returned
\* empty, every other selected entry was created by the run, and is cached
\* and initialized.
C11_FailureIsolation ==
    \A t \in Threads :
        Returned(t, BatchOps) =>
            \A i \in Failures(t) :
                OnlyCreatorFailed(t, i) =>
                    \A k \in Selected(pre[t], BatchBound(t)) \ {evlog[t][i].key} :
                        k \in CreatedKeys(t) /\ Initialized(k)

\* a batch has returned in which the creator of one entry failed and the
\* creator of another selected entry was invoked after that
C11_Witness ==
    \E t \in Threads :
        /\ Returned(t, BatchOps)
        /\ \E i \in Failures(t) :
              /\ OnlyCreatorFailed(t, i)
              /\ \E j \in Invoked(t, "create") :
                    /\ j > i
                    /\ evlog[t][j].key \in Selected(pre[t], BatchBound(t)) \ {evlog[t][i].key}

AllBatchOps == BatchOps \cup {"executeInitsAtPriority"}

\* C12: a batch operation that returns, returns normally, whatever the
\* creators and initializers it ran did, and leaves the mutex free.
C12_BatchDoesNotThrow ==
    \A t \in Threads :
        Returned(t, AllBatchOps) => (ret[t].res = Void /\ mutex_ = FreeMutex)

\* a batch has returned in which a creator failed and an initializer failed
C12_Witness ==
    \E t \in Threads :
        /\ Returned(t, AllBatchOps)
        /\ EventsOf(t, {"create_failed"}) # {} /\ EventsOf(t, {"init_failed"}) # {}

LookupOps == GetFns \cup ForceFns

\* C13: when a lookup or a batch has returned and an initializer failed in
\* it after its creator had succeeded, the instance that was built is cached
\* for the key, and the creator of the key was not invoked again afterwards.
C13_InitFailureKeepsInstance ==
    \A t \in Threads :
        Returned(t, LookupOps \cup AllBatchOps) =>
            \A i \in EventsOf(t, {"init_failed"}) :
                LET k == evlog[t][i].key IN
                /\ Built(k)
                /\ \A j \in EventsOf(t, {"create"}) : evlog[t][j].key = k => j < i

\* C14: in a single-threaded history, the creator of a key registered once
\* returns a non-empty instance at most once, whatever lookups and batches
\* reached the key and whether or not its initializer failed.
C14_SequentialAtMostOnce ==
    \A k \in Keys : RegisteredOnce(k) => life[k].succ < 2

RegisterOps == {"registerCreator", "registerCreatorWithInit",
                "registerNamedCreator", "registerNamedCreatorWithInit",
                "registerClass", "registerClassWithInit",
                "registerNamedInstance", "registerNamedInstanceWithInit"}

\* the registration call t has returned from found its key registered
Duplicate(t) == Returned(t, RegisterOps) /\ ret[t].key \in DOMAIN pre[t].creators

\* C15: when any registration operation has returned and its key was
\* registered but not built when it was called, the key has one entry and
\* the entry holds the creator of this later call.
C15_OverwriteSemantics ==
    \A t \in Threads :
        (Duplicate(t) /\ ret[t].key \notin DOMAIN pre[t].instances) =>
            /\ Registered(ret[t].key)
            /\ creators_[ret[t].key].id = pre[t].creators[ret[t].key].id + 1

\* C17: every registration call, through whichever registration operation,
\* whose key was registered already has written the warning.
C17_DuplicateWarning ==
    \A t \in Threads : Duplicate(t) => ret[t].warn

\* C16: a lookup that returns an instance of a registered key returns an
\* instance made by the creator the key is registered with now, not one
\* cached from a creator that a later registration replaced.
C16_ReregistrationReplacesEntry ==
    \A t \in Threads :
        (/\ Returned(t, LookupOps)
         /\ ret[t].res.kind = "val" /\ ret[t].res.v # nullptr
         /\ Registered(ret[t].key)) =>
            objs[ret[t].res.v].id = creators_[ret[t].key].id

\* the positions in the log of t where the creator of k was invoked
CreatesOf(t, k) == {i \in EventsOf(t, {"create"}) : evlog[t][i].key = k}

\* the positions in the log of t where the creator of k threw or returned empty
CreateFailuresOf(t, k) == {i \in EventsOf(t, {"create_failed"}) : evlog[t][i].key = k}

\* the client creator of k has thrown or returned an empty handle
CreatorFailed(k) == life[k].att > life[k].succ

\* C18: a creator that throws or returns an empty handle changes nothing in
\* the registry: the entry is as it was and, unless another invocation in
\* the same call succeeded, no instance is cached; and a lookup of a key
\* whose creator has failed and that is still unbuilt invokes the creator.
C18_CreatorFailureRetryable ==
    \A t \in Threads :
        /\ Returned(t, LookupOps \cup AllBatchOps) =>
              \A i \in EventsOf(t, {"create_failed"}) :
                  LET k == evlog[t][i].key IN
                  /\ Registered(k) /\ creators_[k] = pre[t].creators[k]
                  /\ Cardinality(CreatesOf(t, k)) = Cardinality(CreateFailuresOf(t, k))
                        => ~Built(k)
        /\ (/\ Returned(t, LookupOps)
            /\ ret[t].key \in DOMAIN pre[t].creators \ DOMAIN pre[t].instances
            /\ CreatorFailed(ret[t].key)) =>
              CreatesOf(t, ret[t].key) # {}

\* the positions in the log of t where client code failed
ClientFailures(t) == EventsOf(t, {"create_failed", "init_failed"})

\* C19: a lookup in which a creator or an initializer failed, in whichever
\* way, returns to its caller without raising, and returns the empty handle
\* when the failure was that of the entry looked up.
C19_LookupsContainClientFailures ==
    \A t \in Threads :
        (/\ Returned(t, LookupOps)
         /\ ClientFailures(t) # {}
         /\ EventsOf(t, {"system_error"}) = {}) =>
            /\ ~Threw(t)
            /\ Len(evlog[t]) \in ClientFailures(t) /\ evlog[t][Len(evlog[t])].depth = 1
                  => ret[t].res = Val(nullptr)

\* C20: for an entry registered with an initializer, the instance in the
\* cache has had its initializer complete, and no lookup returns an
\* instance of the entry whose initializer has not completed.
C20_InitializerBeforeObservation ==
    /\ \A k \in Keys :
          (Registered(k) /\ creators_[k].hasInit /\ Built(k)) =>
              objs[instances_[k]].inited
    /\ \A t \in Threads :
          (/\ Returned(t, LookupOps)
           /\ ret[t].res.kind = "val" /\ ret[t].res.v # nullptr
           /\ Registered(ret[t].key) /\ creators_[ret[t].key].hasInit) =>
              objs[ret[t].res.v].inited

\* the step invokes a client initializer on the thread t
InitInvoked(t) ==
    /\ Len(evlog'[t]) = Len(evlog[t]) + 1
    /\ evlog'[t][Len(evlog'[t])].ev = "init"

\* the initializer of the entry has completed on an instance of the entry
InitCompleted(k, id) ==
    \E o \in 1..Len(objs) : objs[o].key = k /\ objs[o].id = id /\ objs[o].inited

\* C21: once the initializer of an entry has completed without error on an
\* instance of the entry, no lookup and no batch run invokes the
\* initializer of that entry again.
C21_ExactlyOnceInit ==
    [][\A t \in Threads :
          InitInvoked(t) => ~InitCompleted(Top(t).key, Top(t).cr.id)]_vars

\* min(max(p, 0), 10)
EffectivePriority(p) == IF p < 0 THEN 0 ELSE IF p > 10 THEN 10 ELSE p

\* the queue of priority e holds an item of the key k
QueuedAt(k, e) ==
    Contains(init_queues_, e) /\ \E i \in 1..Len(init_queues_[e]) : init_queues_[e][i].key = k

\* C22: an entry registered with priority p is queued at min(max(p, 0), 10);
\* an unbuilt entry registered with p < 0 is created by executePriorInits(0),
\* and one registered with p > 10 is created by executePriorInits(10) and
\* is not invoked by executePriorInits(m) with m < 10.
C22_Clamping ==
    /\ \A k \in Keys :
          Registered(k) =>
              /\ creators_[k].prio = EffectivePriority(creators_[k].raw)
              /\ QueuedAt(k, EffectivePriority(creators_[k].raw))
    /\ \A t \in Threads :
          Returned(t, {"executePriorInits"}) =>
              \A k \in DOMAIN pre[t].creators \ DOMAIN pre[t].instances :
                  LET p == pre[t].creators[k].raw
                      m == ret[t].arg
                  IN /\ (p < 0 /\ m = 0) => k \in CreatedKeys(t)
                     /\ (p > 10 /\ m = 10) => k \in CreatedKeys(t)
                     /\ (p > 10 /\ m < 10) => k \notin InvokedKeys(t)

FreeOps == {"::registerCreator", "::registerCreator<T>", "::registerCreatorWithInit<T>",
            "::registerNamedCreator", "::registerNamedCreator<T>",
            "::registerNamedCreatorWithInit<T>"}

\* the stored creator of the direct registration a free function stands for
DirectCreator(op) ==
    CASE op \in {"::registerCreator", "::registerNamedCreator"} -> Creator("creator", FALSE)
      [] op \in {"::registerCreator<T>", "::registerNamedCreator<T>"} ->
            Creator("creatorWithInit", FALSE)
      [] OTHER -> Creator("creatorWithInit", TRUE)

\* C23: when a free function has returned, its key is registered with the
\* creator and initializer of the equivalent direct registration and is
\* queued at the clamped value of the priority the caller passed.
C23_WrappersPreserveArguments ==
    \A t \in Threads :
        Returned(t, FreeOps) =>
            LET k == ret[t].key
                e == EffectivePriority(ret[t].arg)
            IN /\ Registered(k)
               /\ creators_[k].wrap = DirectCreator(ret[t].op).wrap
               /\ creators_[k].hasInit = DirectCreator(ret[t].op).hasInit
               /\ creators_[k].prio = e
               /\ QueuedAt(k, e)

\* where the items of the key k stand in the queues
ItemsOf(queues, k) ==
    {<<p, i>> \in UNION {{p} \X (1..Len(queues[p])) : p \in DOMAIN queues} :
        queues[p][i].key = k}

\* what the registry r (a snapshot) holds for the key k
EntryOf(r, k) ==
    [creator |-> IF Contains(r.creators, k) THEN r.creators[k] ELSE NoCreator,
     instance |-> IF Contains(r.instances, k) THEN r.instances[k] ELSE nullptr,
     items |-> ItemsOf(r.queues, k)]

\* C24: the unnamed key of a class and its named keys differ, whatever the
\* name, and so do the keys of two names; a registration or a lookup of
\* one key leaves creator, priority, queue items and cached instance of
\* every other key as they were; a lookup returns an instance built for its
\* own key, and no two keys share a cached instance.
C24_NameSpaceDisjointness ==
    /\ \A c \in NamedClasses : \A n1, n2 \in NameArgs :
          /\ makeFullName(c, n1) # c
          /\ n1 # n2 => makeFullName(c, n1) # makeFullName(c, n2)
    /\ \A t \in Threads :
          /\ Returned(t, RegisterOps \cup LookupOps) =>
                \A k \in Keys \ {ret[t].key} : EntryOf(Snapshot, k) = EntryOf(pre[t], k)
          /\ (Returned(t, LookupOps) /\ ret[t].res.kind = "val" /\ ret[t].res.v # nullptr) =>
                objs[ret[t].res.v].key = ret[t].key
    /\ \A k1, k2 \in Keys :
          (k1 # k2 /\ Built(k1) /\ Built(k2)) => instances_[k1] # instances_[k2]

\* the unnamed entry and two named entries of one class are built, one of
\* them re-registered, and the lookup of the last has returned its instance
C24_Witness ==
    /\ \A n \in NameArgs : Built(makeFullName(<<"A">>, n))
    /\ Built(<<"A">>)
    /\ \E t \in Threads :
          Returned(t, LookupOps) /\ ret[t].res.kind = "val" /\ ret[t].res.v # nullptr

\* C25: hasInstance and hasNamedInstance return true exactly when their key
\* is registered, whether or not its instance has been built.
C25_ExistenceCheck ==
    \A t \in Threads :
        Returned(t, {"hasInstance", "hasNamedInstance"}) =>
            (ret[t].res.v <=> Registered(ret[t].key))

\* nothing has been registered since the registry was last empty
NothingRegistered == \A k \in Keys : life[k].regs = 0

\* C26: after clear has returned, and until something is registered again,
\* the registry holds no creator, no cached instance and no queue item.
C26_ClearIsComplete ==
    \A t \in Threads :
        (Returned(t, {"clear"}) /\ NothingRegistered) =>
            /\ creators_ = EmptyMap
            /\ instances_ = EmptyMap
            /\ init_queues_ = EmptyMap

\* client code has been invoked in the call t is in or has returned from
ClientCodeRan(t) == EventsOf(t, {"create", "init"}) # {}

\* C27: no registration operation invokes a creator or an initializer or
\* changes the cached instances; on a registry on which only registrations
\* have run nothing is cached; and the creator of an entry is invoked only
\* in a lookup or a batch.
C27_LazyInstantiation ==
    /\ \A t \in Threads :
          /\ Returned(t, RegisterOps \cup FreeOps) =>
                (~ClientCodeRan(t) /\ instances_ = pre[t].instances)
          /\ ClientCodeRan(t) =>
                (Running(t, LookupOps \cup AllBatchOps) \/ Returned(t, LookupOps \cup AllBatchOps))
    /\ objs = <<>> => instances_ = EmptyMap
    /\ \A k \in Keys : life[k].att > 0 => life[k].by # {}

\* two registrations have returned on a fresh registry, the second of a
\* class with an initializer, and nothing has been created
C27_Witness ==
    /\ \E k1, k2 \in Keys : k1 # k2 /\ Registered(k1) /\ Registered(k2) /\ creators_[k2].hasInit
    /\ \E t \in Threads : Returned(t, RegisterOps)
    /\ objs = <<>> /\ instances_ = EmptyMap

\* C28: within one batch run, of two entries of equal effective priority
\* the one registered earlier is processed first: when the run invokes the
\* creator of the later one, the creator of the earlier one, if it was
\* unbuilt when the run began, has been invoked already.
C28_StableTies ==
    \A t \in Threads :
        (Running(t, AllBatchOps) \/ Returned(t, AllBatchOps)) =>
            \A k1, k2 \in DOMAIN pre[t].creators \ DOMAIN pre[t].instances :
                (/\ pre[t].creators[k1].prio = pre[t].creators[k2].prio
                 /\ pre[t].creators[k1].seq > pre[t].creators[k2].seq) =>
                    \A i \in Invoked(t, "create") :
                        evlog[t][i].key = k2 => \E j \in CreatesOf(t, k1) : j < i

RECURSIVE IsSubsequence(_, _)
\* the sequence s is the sequence u with some of its elements left out
IsSubsequence(s, u) ==
    IF s = <<>> THEN TRUE
    ELSE IF u = <<>> THEN FALSE
    ELSE IF Head(s) = Head(u) THEN IsSubsequence(Tail(s), Tail(u))
    ELSE IsSubsequence(s, Tail(u))

KeysOf(items) == [i \in 1..Len(items) |-> items[i].key]

\* the keys whose creators the call of t has invoked itself, in order
InvokedSequence(t) ==
    KeysOf(SelectSeq(evlog[t], LAMBDA e : e.ev = "create" /\ e.depth = 1))

\* t is in, or has returned from, executeAllInits or executePriorInits(10)
InAllOrPrior10(t) ==
    \/ Running(t, {"executeAllInits"}) \/ Returned(t, {"executeAllInits"})
    \/ Running(t, {"executePriorInits"}) /\ stack[t][1].arg = MaxPriority
    \/ Returned(t, {"executePriorInits"}) /\ ret[t].arg = MaxPriority

\* C29: executeAllInits and executePriorInits(10) do the same: each works
\* on the snapshot of all queues in ascending priority, invokes creators of
\* snapshot items only and in snapshot order, returns normally, and leaves
\* creators and queues as they were and no cached instance removed.
C29_AllIsPrior10 ==
    \A t \in Threads :
        InAllOrPrior10(t) =>
            LET all == collectInitsUpToPriority(pre[t].queues, MaxPriority) IN
            /\ \A f \in Frames(t) :
                  (f.fn = "executePriorInits" /\ f.pc # "collect") => f.inits = all
            /\ IsSubsequence(InvokedSequence(t), KeysOf(all))
            /\ creators_ = pre[t].creators /\ init_queues_ = pre[t].queues
            /\ \A k \in DOMAIN pre[t].instances :
                  Built(k) /\ instances_[k] = pre[t].instances[k]
            /\ Idle(t) => ret[t].res = Void

\* executeAllInits has returned after invoking the creators of two entries
\* of different priorities
C29_Witness ==
    \E t \in Threads :
        /\ Returned(t, {"executeAllInits"})
        /\ Len(InvokedSequence(t)) >= 2
        /\ \E k1, k2 \in DOMAIN pre[t].creators :
              pre[t].creators[k1].prio # pre[t].creators[k2].prio

\* C30: every key that has a cached instance has a registered creator, so
\* the instance count never exceeds the registered count.
C30_CachedBelongsToRegistered ==
    /\ DOMAIN instances_ \subseteq DOMAIN creators_
    /\ Cardinality(DOMAIN instances_) <= Cardinality(DOMAIN creators_)

\* C31: a key registered again at another priority has its latest priority
\* only: executePriorInits with a bound below it and executeInitsAtPriority
\* at another priority do not invoke its creator.
C31_ReregistrationReplacesPriority ==
    \A t \in Threads :
        \A k \in DOMAIN pre[t].creators :
            LET p2 == pre[t].creators[k].prio IN
            /\ (Returned(t, {"executePriorInits"}) /\ BatchBound(t) < p2) =>
                  k \notin InvokedKeys(t)
            /\ (Returned(t, {"executeInitsAtPriority"}) /\ BatchBound(t) # p2) =>
                  k \notin InvokedKeys(t)

\* C32: the init queues hold exactly one item for each registered key and
\* none for any other key, and a batch run that has returned has invoked
\* the creator of no key more than once.
C32_OneQueueItemPerKey ==
    /\ \A k \in Keys :
          Cardinality(ItemsOf(init_queues_, k)) = IF Registered(k) THEN 1 ELSE 0
    /\ \A t \in Threads :
          Returned(t, AllBatchOps) =>
              \A i, j \in Invoked(t, "create") : evlog[t][i].key = evlog[t][j].key => i = j

NamedOps == {"registerNamedCreator", "registerNamedCreatorWithInit",
             "registerNamedInstance", "registerNamedInstanceWithInit"}
NamedLazyFns == {"lazyCreateNamedInstance", "lazyCreateNamedInstanceWithInit"}

\* C33: a registration finds its key registered only if the registration
\* that put it there was of the same form, named or unnamed: an unnamed
\* registration and a named one never address the same key.
C33_KeyDerivationInjective ==
    \A t \in Threads :
        Duplicate(t) =>
            \A x \in ItemsOf(pre[t].queues, ret[t].key) :
                (pre[t].queues[x[1]][x[2]].fn \in NamedLazyFns) <=> (ret[t].op \in NamedOps)

\* the thread is inside executeAllInits and the call it made just before
\* was executeAllInits too
SecondRun(t) == Running(t, {"executeAllInits"}) /\ ret[t].op = "executeAllInits"

\* C34: during a run of executeAllInits made directly after another run of
\* executeAllInits, every instance that was cached when the second run
\* started is still cached and is the same object, and every creator or
\* initializer the second run invokes belongs to a key that had no cached
\* instance when it started.
C34_BatchIdempotence ==
    \A t \in Threads :
        SecondRun(t) =>
            /\ \A k \in DOMAIN pre[t].instances :
                  Built(k) /\ instances_[k] = pre[t].instances[k]
            /\ \A i \in EventsOf(t, {"create", "init"}) :
                  evlog[t][i].key \notin DOMAIN pre[t].instances

\* a second run that found one entry built by the first run and has built
\* another whose creation had failed in the first run
C34_Witness ==
    \E t \in Threads :
        /\ SecondRun(t)
        /\ \E k \in DOMAIN pre[t].instances : Registered(k)
        /\ \E k \in CreatedKeys(t) :
              /\ k \in DOMAIN pre[t].creators
              /\ life[k].att > 1
              /\ Built(k)

\* what executePriorInits(m) and executeInitsAtPriority(m) snapshot from
\* the queues for a bound m inside the range
PriorSnapshot(queues, m) == collectInitsUpToPriority(queues, m)
AtSnapshot(queues, m) == collectInitsAtPriority(queues, m)

\* the bound inside the range that a call with bound m must behave as
BehavesAs(m) == IF m < 0 THEN 0 ELSE IF m > 10 THEN 10 ELSE m

\* C35: executePriorInits(m) works on the snapshot executePriorInits(0)
\* takes when m < 0 and on the one executePriorInits(10) takes when m > 10,
\* executeInitsAtPriority(p) on the queue of priority 0 when p < 0 and of
\* priority 10 when p > 10; the creators the call invokes are those of
\* that snapshot, in its order.
C35_BatchBoundClamped ==
    \A t \in Threads :
        /\ \A f \in Frames(t) :
              (f.fn \in BatchFns /\ f.pc # "collect") =>
                  f.inits = IF f.fn = "executePriorInits"
                            THEN PriorSnapshot(pre[t].queues, BehavesAs(f.arg))
                            ELSE AtSnapshot(pre[t].queues, BehavesAs(f.arg))
        /\ Returned(t, {"executePriorInits"}) =>
              IsSubsequence(InvokedSequence(t),
                            KeysOf(PriorSnapshot(pre[t].queues, BehavesAs(ret[t].arg))))
        /\ Returned(t, {"executeInitsAtPriority"}) =>
              IsSubsequence(InvokedSequence(t),
                            KeysOf(AtSnapshot(pre[t].queues, BehavesAs(ret[t].arg))))

\* executePriorInits with a bound below 0 has returned after building an
\* entry of priority 0
C35_Witness ==
    \E t \in Threads :
        /\ Returned(t, {"executePriorInits"})
        /\ ret[t].arg < 0
        /\ \E k \in InvokedKeys(t) :
              /\ k \in DOMAIN pre[t].creators
              /\ pre[t].creators[k].prio = 0
              /\ k \notin DOMAIN pre[t].instances
              /\ Built(k)

\* C36: when executeInitsAtPriority(p) has returned, every entry that was
\* unbuilt and of effective priority p when it was called has had its
\* creator invoked, and is built if nothing failed; those creators were
\* invoked in registration order; the call has invoked the creator of no
\* entry of another priority, and the instance such an entry had cached is
\* still cached and the same.
C36_AtPriorityOnly ==
    \A t \in Threads :
        Returned(t, {"executeInitsAtPriority"}) =>
            LET p == BatchBound(t)
                entries == pre[t].creators
                unbuilt == DOMAIN entries \ DOMAIN pre[t].instances
            IN /\ \A k \in unbuilt :
                     entries[k].prio = p =>
                         /\ k \in CreatedKeys(t)
                         /\ Failures(t) = {} => Built(k)
               /\ \A k1, k2 \in unbuilt :
                     (/\ entries[k1].prio = p /\ entries[k2].prio = p
                      /\ entries[k1].seq > entries[k2].seq) =>
                         \A i \in Invoked(t, "create") :
                             evlog[t][i].key = k2 => \E j \in CreatesOf(t, k1) : j < i
               /\ \A k \in DOMAIN entries :
                     entries[k].prio # p =>
                         /\ k \notin InvokedKeys(t)
                         /\ k \in DOMAIN pre[t].instances =>
                                Built(k) /\ instances_[k] = pre[t].instances[k]

\* the creator cr was stored by a registration made after the batch frame
\* bf took its snapshot (seq and taken count the registrations left)
RegisteredAfterSnapshot(bf, cr) == cr.seq <= bf.taken

\* clear has run after the batch frame bf took its snapshot, and nothing
\* has been registered since
ClearedAfterSnapshot(bf) == bf.inits # <<>> /\ init_queues_ = EmptyMap

\* C37: while executePriorInits works through its snapshot, every creator
\* it runs itself was stored by a registration made before the snapshot
\* was taken; once clear has run after the snapshot, and until something
\* is registered again, no creator is invoked; and the call returns
\* normally when the registry was cleared during it.
C37_SnapshotOnly ==
    \A t \in Threads :
        /\ \A j \in 1..Len(stack[t]) :
              LET bf == stack[t][j] IN
              (bf.fn = "executePriorInits" /\ bf.pc # "collect") =>
                  /\ (j < Len(stack[t]) /\ stack[t][j + 1].cr # NoCreator) =>
                         ~RegisteredAfterSnapshot(bf, stack[t][j + 1].cr)
                  /\ ClearedAfterSnapshot(bf) =>
                         \A k \in Keys : life[k].att = 0
        /\ (/\ Returned(t, {"executePriorInits"})
            /\ pre[t].queues # EmptyMap /\ init_queues_ = EmptyMap) =>
               ret[t].res = Void

IntrospectionOps == {"hasInstance", "hasNamedInstance", "getInstanceCount",
                     "getRegisteredCount", "printInstances", "printCreators",
                     "printInitQueues"}

\* the step is a call of one of the introspection operations by t, the
\* only thread that runs
IntrospectionCall(t) ==
    /\ stack[t] = <<>> /\ stack'[t] = <<>>
    /\ calls' = calls - 1
    /\ ret'[t].op \in IntrospectionOps

\* C38: a call of hasInstance, hasNamedInstance, getInstanceCount,
\* getRegisteredCount, printInstances, printCreators or printInitQueues
\* leaves creators, cached instances and init queues as they were, creates
\* and initializes no object, and invokes no creator and no initializer.
C38_IntrospectionReadOnly ==
    [][\A t \in Threads :
          IntrospectionCall(t) =>
              /\ creators_' = creators_
              /\ instances_' = instances_
              /\ init_queues_' = init_queues_
              /\ objs' = objs
              /\ evlog'[t] = <<>>
              /\ \A k \in Keys : life'[k].att = life[k].att]_vars

\* a print operation has returned on a registry that holds a creator, a
\* queue item and a cached instance
C38_Witness ==
    \E t \in Threads :
        /\ Returned(t, {"printInstances", "printCreators", "printInitQueues"})
        /\ pre[t] = Snapshot
        /\ creators_ # EmptyMap /\ instances_ # EmptyMap /\ init_queues_ # EmptyMap

====
